---- MODULE Spec2Model ----
(***************************************************************************)
(* A model of the example device-plugin server (examples/server): the      *)
(* three Flask handlers fingerprint, reserve and stats of main.py and the  *)
(* dataclasses of rpc_types.py they build their responses from.            *)
(*                                                                         *)
(* Representation.  A dataclass instance is a record with the dataclass's  *)
(* field names; dataclasses.asdict and Flask's jsonify turn it into a JSON *)
(* object with the same keys, so the record also stands for the JSON body. *)
(* A Python dict is a function, a Python list a sequence.  An Optional     *)
(* field holds None (the empty tuple) or Some(v) (a one-element tuple).    *)
(* A float is written as a string holding its decimal digits.              *)
(*                                                                         *)
(* The module has no global but the Flask app and no handler reads or      *)
(* writes a variable another handler sees, so a handler runs as one step;  *)
(* calls records the answers in the order they were sent.                  *)
(***************************************************************************)
EXTENDS Naturals, Sequences, FiniteSets, TLC

\* ------------------------------------------------------------------ bounds

\* Longest JSON list a client posts to /reserve.
MaxLen == 2
\* Number of requests the server has answered before the run is cut.
MaxCalls == 2
\* Largest reading of the host wall clock, in half seconds.
MaxClock == 2

\* ------------------------------------------------------------- basic values

None == <<>>
Some(v) == <<v>>

\* JSON values as request.json yields them: a str, an int, a list or None.
JStr(s) == [type |-> "str", str |-> s]
JInt(n) == [type |-> "int", int |-> n]
JList(xs) == [type |-> "list", items |-> xs]
JNull == [type |-> "NoneType"]

isinstance(x, t) == x.type = t

\* flask.abort(code): the handler stops and the response carries only the status.
abort(code) == [status |-> code]
\* flask.jsonify(obj): a 200 response whose body is obj's JSON object.
jsonify(obj) == [status |-> 200, json |-> obj]

\* ------------------------------------------------------------ rpc_types.py

Attribute(Float, Int, String, Bool, Unit) ==
    [Float |-> Float, Int |-> Int, String |-> String, Bool |-> Bool, Unit |-> Unit]

Device(ID, Healthy, HealthDesc, HwLocality) ==
    [ID |-> ID, Healthy |-> Healthy, HealthDesc |-> HealthDesc, HwLocality |-> HwLocality]

DeviceGroup(Vendor, Type, Name, Devices, Attributes) ==
    [Vendor |-> Vendor, Type |-> Type, Name |-> Name, Devices |-> Devices,
     Attributes |-> Attributes]

FingerprintResponse(Devices, Error) == [Devices |-> Devices, Error |-> Error]

ContainerReservation(Envs, Mounts, Devices) ==
    [Envs |-> Envs, Mounts |-> Mounts, Devices |-> Devices]

StatValue(FloatNumeratorVal, FloatDenominatorVal, IntNumeratorVal, IntDenominatorVal, StringVal, BoolVal, Unit, Desc) ==
    [FloatNumeratorVal |-> FloatNumeratorVal, FloatDenominatorVal |-> FloatDenominatorVal,
     IntNumeratorVal |-> IntNumeratorVal, IntDenominatorVal |-> IntDenominatorVal,
     StringVal |-> StringVal, BoolVal |-> BoolVal, Unit |-> Unit, Desc |-> Desc]

StatObject(Nested, Attributes) == [Nested |-> Nested, Attributes |-> Attributes]

DeviceStats(Summary, Stats, Timestamp) ==
    [Summary |-> Summary, Stats |-> Stats, Timestamp |-> Timestamp]

DeviceGroupStats(Vendor, Type, Name, InstanceStats) ==
    [Vendor |-> Vendor, Type |-> Type, Name |-> Name, InstanceStats |-> InstanceStats]

StatsResponse(Groups, Error) == [Groups |-> Groups, Error |-> Error]

\* ------------------------------------------------------------------- state

VARIABLES
    clock,   \* the host wall clock datetime.now reads, in half seconds
    calls,   \* the requests answered so far, each with the response sent
    value    \* the Attribute or StatValue constructed last, None before any

vars == <<clock, calls, value>>

\* ------------------------------------------------- reading the call record

ReserveCalls == {i \in 1..Len(calls) : calls[i].op = "reserve"}
FingerprintCalls == {i \in 1..Len(calls) : calls[i].op = "fingerprint"}
StatsCalls == {i \in 1..Len(calls) : calls[i].op = "stats"}

\* A /reserve body of the shape the protocol asks for: a list of strings.
WellFormed(p) ==
    /\ p.type = "list"
    /\ \A k \in 1..Len(p.items) : p.items[k].type = "str"

RequestedIds(p) == {p.items[k].str : k \in 1..Len(p.items)}

Succeeded(r) == r.status = 200

\* The per-ID statuses of a reservation response: the code has one map, the
\* first field of ContainerReservation, and puts the statuses there.
Bindings(r) == r.json.Envs

\* The device IDs of the catalog: the union of the groups fingerprint returns.
CatalogIds(r) ==
    UNION {{r.json.Devices[g].Devices[d].ID : d \in 1..Len(r.json.Devices[g].Devices)} :
           g \in 1..Len(r.json.Devices)}

\* The instant a timestamp denotes, in microseconds (datetime.fromisoformat).
Instant(ts) ==
    ts.seconds * 1000000 + (IF ts.fraction = None THEN 0 ELSE ts.fraction[1])

\* ----------------------------------------------------------------- main.py

\* datetime.datetime.now(datetime.timezone.utc) at wall-clock reading t.
datetime_now(t) == [second |-> t \div 2, microsecond |-> (t % 2) * 500000]

\* datetime.isoformat(): the fraction is left out when microsecond is 0.
isoformat(dt) ==
    [seconds |-> dt.second,
     fraction |-> IF dt.microsecond = 0 THEN None ELSE Some(dt.microsecond),
     offset |-> "+00:00"]

\* fingerprint, were it to report only what no earlier call had reported.
fingerprint_delta ==
    jsonify(FingerprintResponse(
        IF FingerprintCalls # {} THEN <<>>
        ELSE << DeviceGroup("Test", "Hello", "World",
                            << Device("1234", TRUE, "OK", None) >>,
                            [k \in {"GenericAttr"} |->
                                Attribute(None, None, Some("Yee"), None, "")]) >>,
        None))

fingerprint ==
    jsonify(FingerprintResponse(
        << DeviceGroup("Test", "Hello", "World",
                       << Device("1234", TRUE, "OK", None) >>,
                       [k \in {"GenericAttr"} |->
                           Attribute(None, None, Some("Yee"), None, "")]) >>,
        None))

\* {i: "OK" for i in device_ids}: the keys are inserted left to right, a
\* repeated key overwriting the entry it already has.
RECURSIVE DictComp(_)
DictComp(device_ids) ==
    IF device_ids = <<>> THEN <<>>
    ELSE LET n == Len(device_ids)
             i == device_ids[n].str
         IN (i :> "OK") @@ DictComp(SubSeq(device_ids, 1, n - 1))

\* reserve, were it to bind only the first ID of the list.
reserve_first_only(device_ids) ==
    IF \/ ~isinstance(device_ids, "list")
       \/ ~(\A k \in 1..Len(device_ids.items) : isinstance(device_ids.items[k], "str"))
    THEN abort(413)
    ELSE jsonify(ContainerReservation(
             DictComp(IF device_ids.items = <<>> THEN <<>> ELSE << device_ids.items[1] >>),
             <<>>, <<>>))

\* reserve, were it to skip the elements that are no strings instead of
\* refusing the request.
reserve_skips_non_strings(device_ids) ==
    IF ~isinstance(device_ids, "list")
    THEN abort(413)
    ELSE jsonify(ContainerReservation(
             DictComp(SelectSeq(device_ids.items, LAMBDA x : isinstance(x, "str"))),
             <<>>, <<>>))

\* reserve, were it to check the IDs against the catalog and still write an
\* entry and a mount for every requested ID.
reserve_mounts_all(device_ids) ==
    IF \/ ~isinstance(device_ids, "list")
       \/ ~(\A k \in 1..Len(device_ids.items) : isinstance(device_ids.items[k], "str"))
    THEN abort(413)
    ELSE jsonify(ContainerReservation(
             [i \in DOMAIN DictComp(device_ids.items) |->
                 IF i = "1234" THEN "OK" ELSE "unknown device"],
             [k \in 1..Len(device_ids.items) |->
                 [TaskPath |-> device_ids.items[k].str, HostPath |-> device_ids.items[k].str,
                  ReadOnly |-> TRUE]],
             <<>>))

\* reserve, were it to keep a table of the IDs it has granted.
reserve_stateful(device_ids) ==
    IF \/ ~isinstance(device_ids, "list")
       \/ ~(\A k \in 1..Len(device_ids.items) : isinstance(device_ids.items[k], "str"))
    THEN abort(413)
    ELSE LET held == UNION {DOMAIN Bindings(calls[c].response) :
                            c \in {x \in ReserveCalls : Succeeded(calls[x].response)}}
         IN jsonify(ContainerReservation(
                [i \in DOMAIN DictComp(device_ids.items) |->
                    IF i \in held THEN "already reserved" ELSE "OK"],
                <<>>, <<>>))

reserve(device_ids) ==
    IF \/ ~isinstance(device_ids, "list")
       \/ ~(\A k \in 1..Len(device_ids.items) : isinstance(device_ids.items[k], "str"))
    THEN abort(413)
    ELSE jsonify(ContainerReservation(DictComp(device_ids.items), <<>>, <<>>))

\* stats, were it to key the snapshot by another ID than the catalog's.
stats_other_id(now, rand) ==
    jsonify(StatsResponse(
        << DeviceGroupStats("Test", "Hello", "World",
               [k \in {"4321"} |->
                   DeviceStats(
                       Some(StatValue(None, None, None, None, Some("Coolio"), None, "", "")),
                       Some(StatObject(<<>>,
                           [a \in {"random"} |->
                               StatValue(Some(rand), None, None, None, None, None, "", "")])),
                       Some(isoformat(datetime_now(now))))]) >>,
        None))

stats(now, rand) ==
    jsonify(StatsResponse(
        << DeviceGroupStats("Test", "Hello", "World",
               [k \in {"1234"} |->
                   DeviceStats(
                       Some(StatValue(None, None, None, None, Some("Coolio"), None, "", "")),
                       Some(StatObject(<<>>,
                           [a \in {"random"} |->
                               StatValue(Some(rand), None, None, None, None, None, "", "")])),
                       Some(isoformat(datetime_now(now))))]) >>,
        None))

\* ------------------------------------------------------------- environment

\* What a client may put in a posted list: two device IDs and a non-string.
Elements == {JStr("1234"), JStr("9999"), JInt(42)}

RECURSIVE ListsUpTo(_)
ListsUpTo(n) ==
    IF n = 0 THEN {<<>>}
    ELSE LET shorter == ListsUpTo(n - 1)
         IN shorter \cup {Append(xs, e) : xs \in {s \in shorter : Len(s) = n - 1},
                                          e \in Elements}

\* The JSON bodies posted to /reserve: lists, and two bodies that are no list.
Payloads == {JList(xs) : xs \in ListsUpTo(MaxLen)} \cup {JStr("1234"), JNull}

\* Results of random.random().
RandomFloats == {"0.25", "0.75"}

\* ----------------------------------------------------------------- actions

Init ==
    /\ clock = 0
    /\ calls = <<>>
    /\ value = None

Answered(op, request, response) ==
    /\ Len(calls) < MaxCalls
    /\ calls' = Append(calls, [op |-> op, request |-> request, response |-> response])

GetFingerprint ==
    /\ Answered("fingerprint", JNull, fingerprint)
    /\ UNCHANGED <<clock, value>>

PostReserve ==
    /\ \E request_json \in Payloads :
          Answered("reserve", request_json, reserve(request_json))
    /\ UNCHANGED <<clock, value>>

GetStats ==
    /\ \E rand \in RandomFloats :
          Answered("stats", JNull, stats(clock, rand))
    /\ UNCHANGED <<clock, value>>

\* The host clock moves on.
ClockAdvance ==
    /\ clock < MaxClock
    /\ clock' = clock + 1
    /\ UNCHANGED <<calls, value>>

\* The host clock is set back (an NTP step, an operator setting the time):
\* datetime.now reads the settable wall clock, not a monotonic one.
ClockSetBack ==
    /\ \E t \in {u \in 0..clock : u < clock} : clock' = t
    /\ UNCHANGED <<calls, value>>

Next ==
    \/ GetFingerprint
    \/ PostReserve
    \/ GetStats
    \/ ClockAdvance
    \/ ClockSetBack

Spec == Init /\ [][Next]_vars

\* --------------------------------------------- constructing the value types

\* Arguments a caller may give a payload field, and the unit and description.
Floats == {None, Some("1.0")}
Ints == {None, Some(1)}
Strings == {None, Some("Yee")}
Bools == {None, Some(TRUE)}
Units == {"", "MiB"}
Descs == {"", "used"}

MakeAttribute ==
    /\ \E f \in Floats, i \in Ints, s \in Strings, b \in Bools, u \in Units :
          value' = Some([class |-> "Attribute", fields |-> Attribute(f, i, s, b, u)])
    /\ UNCHANGED <<clock, calls>>

MakeStatValue ==
    /\ \E fn \in Floats, fd \in Floats, in \in Ints, id \in Ints,
          s \in Strings, b \in Bools, u \in Units, d \in Descs :
          value' = Some([class |-> "StatValue",
                         fields |-> StatValue(fn, fd, in, id, s, b, u, d)])
    /\ UNCHANGED <<clock, calls>>

NextValue ==
    \/ MakeAttribute
    \/ MakeStatValue

SpecValue == Init /\ [][NextValue]_vars

\* ------------------------------------------------------------------ claims

\* C1. At-most-once allocation: of two well-formed Reserve calls that both
\* include a device ID, at most one answers "OK" for it, and after an "OK"
\* the later call answers "already reserved".  (No release exists.)
C1_AtMostOnceAllocation ==
    \A i \in ReserveCalls, j \in ReserveCalls :
        (i < j /\ WellFormed(calls[i].request) /\ WellFormed(calls[j].request)) =>
            \A d \in RequestedIds(calls[i].request) \cap RequestedIds(calls[j].request) :
                LET first == Bindings(calls[i].response)[d]
                    later == Bindings(calls[j].response)[d]
                IN /\ ~(first = "OK" /\ later = "OK")
                   /\ first = "OK" => later = "already reserved"

\* C2. Unknown-device handling: a well-formed Reserve call succeeds as a
\* whole, and every requested ID that is no device of the catalog gets the
\* status "unknown device", never "OK".
C2_UnknownDeviceReported ==
    \A i \in ReserveCalls :
        WellFormed(calls[i].request) =>
            /\ Succeeded(calls[i].response)
            /\ \A d \in RequestedIds(calls[i].request) \ CatalogIds(fingerprint) :
                  Bindings(calls[i].response)[d] = "unknown device"

\* C3. Reservation completeness: the keys of the binding map a well-formed
\* Reserve call returns are exactly the distinct requested IDs.
C3_ReservationCompleteness ==
    \A i \in ReserveCalls :
        WellFormed(calls[i].request) =>
            /\ Succeeded(calls[i].response)
            /\ DOMAIN Bindings(calls[i].response) = RequestedIds(calls[i].request)

\* Two answered Reserve calls, one with a repeated ID and one mixing a catalog
\* device with an unknown one.
C3_Witness ==
    /\ \E i \in ReserveCalls :
          /\ WellFormed(calls[i].request)
          /\ Cardinality(RequestedIds(calls[i].request)) < Len(calls[i].request.items)
          /\ Cardinality(DOMAIN Bindings(calls[i].response)) = 1
    /\ \E i \in ReserveCalls :
          /\ WellFormed(calls[i].request)
          /\ DOMAIN Bindings(calls[i].response) = {"1234", "9999"}

\* A Reserve call has just been answered, and its body was malformed.
MalformedReserveStep ==
    /\ Len(calls') = Len(calls) + 1
    /\ calls'[Len(calls')].op = "reserve"
    /\ ~WellFormed(calls'[Len(calls')].request)

\* C4. A malformed Reserve body (no list, or a list with a non-string
\* element) ends in a client-error status with no binding for any element,
\* and the call changes nothing but the record of its own answer.
C4_MalformedRejected ==
    /\ [](\A i \in ReserveCalls :
            ~WellFormed(calls[i].request) =>
                /\ calls[i].response.status \in 400..499
                /\ DOMAIN calls[i].response = {"status"})
    /\ [][MalformedReserveStep =>
            /\ clock' = clock
            /\ value' = value
            /\ SubSeq(calls', 1, Len(calls)) = calls]_vars

\* A refused list that holds a valid device ID beside a non-string, and a
\* refused body that is no list.
C4_Witness ==
    /\ \E i \in ReserveCalls :
          /\ calls[i].request.type = "list"
          /\ \E k \in 1..Len(calls[i].request.items) :
                calls[i].request.items[k] = JStr("1234")
          /\ \E k \in 1..Len(calls[i].request.items) :
                calls[i].request.items[k].type # "str"
          /\ calls[i].response.status = 413
    /\ \E i \in ReserveCalls :
          /\ calls[i].request.type # "list"
          /\ calls[i].response.status = 413

\* A mount or device-spec entry refers to device ID d when one of its paths
\* names d.
RefersTo(entry, d) == entry.TaskPath = d \/ entry.HostPath = d

\* C5. Binding consistency: in every reservation response each env entry
\* belongs to a device ID whose status in that response is "OK", and no
\* mount or device-spec entry refers to a requested ID whose status is not.
C5_BindingConsistency ==
    \A i \in ReserveCalls :
        Succeeded(calls[i].response) =>
            LET r == calls[i].response.json
                ok(d) == d \in DOMAIN Bindings(calls[i].response)
                            /\ Bindings(calls[i].response)[d] = "OK"
            IN /\ \A d \in DOMAIN r.Envs : ok(d)
               /\ \A k \in 1..Len(r.Mounts) :
                     \A d \in RequestedIds(calls[i].request) :
                        RefersTo(r.Mounts[k], d) => ok(d)
               /\ \A k \in 1..Len(r.Devices) :
                     \A d \in RequestedIds(calls[i].request) :
                        RefersTo(r.Devices[k], d) => ok(d)

\* An answered request for a catalog device together with an unknown one.
C5_Witness ==
    \E i \in ReserveCalls :
        /\ Succeeded(calls[i].response)
        /\ DOMAIN calls[i].response.json.Envs = {"1234", "9999"}

\* The last Fingerprint call answered before call j, 0 if there is none.
LastFingerprintBefore(j) ==
    IF \E i \in FingerprintCalls : i < j
    THEN CHOOSE i \in FingerprintCalls : i < j /\ \A k \in FingerprintCalls : k < j => k <= i
    ELSE 0

\* Device ID id of catalog group g has a snapshot in the stats response r, in
\* the group of the same vendor, type and name.
Covered(g, id, r) ==
    \E s \in 1..Len(r.json.Groups) :
        /\ r.json.Groups[s].Vendor = g.Vendor
        /\ r.json.Groups[s].Type = g.Type
        /\ r.json.Groups[s].Name = g.Name
        /\ id \in DOMAIN r.json.Groups[s].InstanceStats

\* C6. Stats coverage: a Stats response has, for every device of the most
\* recent catalog, a snapshot under its ID in the group of the same vendor,
\* type and name, or it carries an error.
C6_StatsCoverage ==
    \A j \in StatsCalls :
        LastFingerprintBefore(j) # 0 =>
            LET catalog == calls[LastFingerprintBefore(j)].response.json
                r == calls[j].response
            IN \/ r.json.Error # None
               \/ \A g \in 1..Len(catalog.Devices) :
                     \A d \in 1..Len(catalog.Devices[g].Devices) :
                        Covered(catalog.Devices[g], catalog.Devices[g].Devices[d].ID, r)

\* A Stats call answered after a Fingerprint call that listed device 1234.
C6_Witness ==
    \E j \in StatsCalls :
        /\ LastFingerprintBefore(j) # 0
        /\ "1234" \in CatalogIds(calls[LastFingerprintBefore(j)].response)
        /\ Succeeded(calls[j].response)

\* The timestamp of device id in the stats response r.
TimestampOf(r, id) == r.json.Groups[1].InstanceStats[id].Timestamp[1]

\* C7. Timestamp monotonicity: of two Stats calls, the later one's timestamp
\* for a device is not earlier than the first one's.
C7_TimestampMonotone ==
    \A i \in StatsCalls, j \in StatsCalls :
        i < j =>
            \A id \in DOMAIN calls[i].response.json.Groups[1].InstanceStats :
                Instant(TimestampOf(calls[i].response, id))
                    <= Instant(TimestampOf(calls[j].response, id))

\* The kinds of payload a constructed value holds: a numerator and a
\* denominator of one numeric type are the one payload of a ratio.
PayloadKinds(v) ==
    IF v.class = "Attribute"
    THEN {k \in {"Float", "Int", "String", "Bool"} : v.fields[k] # None}
    ELSE {k \in {"Float", "Int", "String", "Bool"} :
            \/ k = "Float" /\ (v.fields.FloatNumeratorVal # None
                               \/ v.fields.FloatDenominatorVal # None)
            \/ k = "Int" /\ (v.fields.IntNumeratorVal # None
                             \/ v.fields.IntDenominatorVal # None)
            \/ k = "String" /\ v.fields.StringVal # None
            \/ k = "Bool" /\ v.fields.BoolVal # None}

\* C8. Value exclusivity: no constructed Attribute or StatValue holds more
\* than one payload; a construction with two payloads is refused or reduced
\* to one, never accepted unchanged.  (A value with no payload is the data
\* model's absent value and is not counted against the claim.)
C8_ValueExclusive ==
    value # None => Cardinality(PayloadKinds(value[1])) <= 1

\* A Fingerprint call has just been answered.
FingerprintStep ==
    /\ Len(calls') = Len(calls) + 1
    /\ calls'[Len(calls')].op = "fingerprint"

\* C9. Fingerprint is a pure read returning a complete snapshot: every answer
\* is the same full catalog whatever calls came before it, and the call
\* changes nothing but the record of its own answer.
C9_FingerprintPure ==
    /\ [](\A i \in FingerprintCalls :
            /\ Succeeded(calls[i].response)
            /\ calls[i].response.json.Error = None
            /\ CatalogIds(calls[i].response) = {"1234"}
            /\ \A j \in FingerprintCalls : calls[j].response = calls[i].response)
    /\ [][FingerprintStep =>
            /\ clock' = clock
            /\ value' = value
            /\ SubSeq(calls', 1, Len(calls)) = calls]_vars

\* A Fingerprint call answered after a Reserve call that was granted 1234.
C9_Witness ==
    \E i \in ReserveCalls, j \in FingerprintCalls :
        /\ i < j
        /\ Succeeded(calls[i].response)
        /\ "1234" \in DOMAIN Bindings(calls[i].response)
        /\ Succeeded(calls[j].response)

====
